---- MODULE Spec2Model ----
(***************************************************************************)
(* Model of src/bin/main.rs of muellabfuhr_reminder: the date codec        *)
(* (parse_yyyymmdd), the calendar parser (extract_ics_event) and the three *)
(* cooperative tasks main / connection / net_task.                         *)
(*                                                                         *)
(* A Rust &str is modelled as the sequence of its UTF-8 bytes.  An ASCII   *)
(* byte is the one-character string of its character, the control bytes    *)
(* are "LF", "CR" and "TAB", and a byte >= 0x80 is "xHH".                  *)
(***************************************************************************)
EXTENDS Integers, Sequences, FiniteSets, TLC

VARIABLES
    date_s,        \* parse_yyyymmdd: the argument s
    date_ret,      \* parse_yyyymmdd: what the call produced
    blocks,        \* extract_ics_event: the argument, as the names of its blocks
    lines_read,    \* extract_ics_event: how many lines lines() has yielded
    start_ts,      \* extract_ics_event: Option<UTCDate>, <<>> is None
    event_type,    \* extract_ics_event: Option<Event>, "None" is None
    ics_events,    \* extract_ics_event: the Vec<IcsEvent>
    parse_pc,      \* extract_ics_event: "lines", "returned" or "panicked"
    panic_line,    \* the source line of the assert!/unwrap that panicked, 0 if none
    main_pc,       \* main: the await it is suspended at, "idle" or "panicked"
    conn_pc,       \* connection: the await it is suspended at, or "panicked"
    sta_state,     \* esp_radio::wifi::sta_state()
    ev_connected,     \* the radio's pending WifiEvent::StaConnected
    ev_disconnected,  \* the radio's pending WifiEvent::StaDisconnected
    confirm_pending,  \* StaConnected is posted and sta_state() does not show it yet
    link_up,       \* stack.is_link_up()
    config_v4      \* stack.config_v4().is_some()

sysVars ==
    <<main_pc, conn_pc, sta_state, ev_connected, ev_disconnected, confirm_pending,
      link_up, config_v4>>
dateVars == <<date_s, date_ret>>
parseVars ==
    <<blocks, lines_read, start_ts, event_type, ics_events, parse_pc, panic_line>>
vars ==
    <<date_s, date_ret, blocks, lines_read, start_ts, event_type, ics_events,
      parse_pc, panic_line, main_pc, conn_pc, sta_state, ev_connected,
      ev_disconnected, confirm_pending, link_up, config_v4>>

\* The tasks are not running: the state of the task variables while a function
\* is exercised on its own.
TasksNotStarted ==
    /\ main_pc = "not started"
    /\ conn_pc = "not started"
    /\ sta_state = "Invalid"
    /\ ev_connected = FALSE
    /\ ev_disconnected = FALSE
    /\ confirm_pending = FALSE
    /\ link_up = FALSE
    /\ config_v4 = FALSE

----------------------------------------------------------------------------
(* Bytes and strings *)

Digits == <<"0", "1", "2", "3", "4", "5", "6", "7", "8", "9">>

IsDigit(b) == \E i \in 1..10 : Digits[i] = b

DigitVal(b) == (CHOOSE i \in 1..10 : Digits[i] = b) - 1

\* The UTF-8 continuation bytes (0x80..0xBF) that occur in the model's strings.
ContinuationBytes == {"xBC", "xA4"}

\* str::is_char_boundary: 0 and len are boundaries, and so is every index that
\* does not point at a continuation byte.
IsCharBoundary(str, i) ==
    \/ i = 0
    \/ i = Len(str)
    \/ (i < Len(str) /\ str[i + 1] \notin ContinuationBytes)

\* &str[a..b], where a and b are known to be char boundaries.
Slice(str, a, b) == SubSeq(str, a + 1, b)

StartsWith(str, prefix) ==
    /\ Len(str) >= Len(prefix)
    /\ SubSeq(str, 1, Len(prefix)) = prefix

\* char::is_whitespace, on the bytes of the model.
IsWhitespace(b) == b \in {" ", "TAB", "CR", "LF"}

RECURSIVE TrimEnd(_)
TrimEnd(str) ==
    IF str # <<>> /\ IsWhitespace(str[Len(str)])
    THEN TrimEnd(SubSeq(str, 1, Len(str) - 1))
    ELSE str

RECURSIVE TrimStart(_)
TrimStart(str) ==
    IF str # <<>> /\ IsWhitespace(str[1])
    THEN TrimStart(Tail(str))
    ELSE str

Trim(str) == TrimStart(TrimEnd(str))

----------------------------------------------------------------------------
(* Integer parsing: <u64 as FromStr>::from_str and <u8 as FromStr>::from_str *)

U8_MAX == 255

RECURSIVE DigitsValue(_, _)
\* The value of a run of ASCII digits, most significant first, after acc.
DigitsValue(ds, acc) ==
    IF ds = <<>> THEN acc
    ELSE DigitsValue(Tail(ds), acc * 10 + DigitVal(ds[1]))

\* from_str_radix(src, 10) of an unsigned type: an optional leading "+" is
\* dropped, a lone sign or an empty string is an error, and so is every byte
\* that is not an ASCII digit.
UnsignedDigits(src) ==
    LET body == IF Len(src) > 1 /\ src[1] = "+" THEN Tail(src) ELSE src
    IN  IF src = <<>> THEN [ok |-> FALSE, digits |-> <<>>]
        ELSE IF \E i \in 1..Len(body) : ~IsDigit(body[i])
             THEN [ok |-> FALSE, digits |-> <<>>]
        ELSE [ok |-> TRUE, digits |-> body]

\* s[0..4].parse::<u64>(): four bytes hold at most 9999, far below 2^64, so the
\* overflow error of u64 cannot occur.
ParseU64(src) ==
    LET ds == UnsignedDigits(src)
    IN  IF ~ds.ok THEN [ok |-> FALSE, val |-> 0]
        ELSE [ok |-> TRUE, val |-> DigitsValue(ds.digits, 0)]

\* s[4..6].parse::<u8>() and s[6..8].parse::<u8>(): a value above u8::MAX is
\* the overflow error.
ParseU8(src) ==
    LET ds == UnsignedDigits(src)
    IN  IF ~ds.ok THEN [ok |-> FALSE, val |-> 0]
        ELSE IF DigitsValue(ds.digits, 0) > U8_MAX THEN [ok |-> FALSE, val |-> 0]
        ELSE [ok |-> TRUE, val |-> DigitsValue(ds.digits, 0)]

----------------------------------------------------------------------------
(* UTCDate::try_from_components of the utc_dt crate *)

\* UTCDate::MIN_YEAR: a UTCDate counts days from the Unix epoch.
MIN_YEAR == 1970

IsLeapYear(year) ==
    (year % 4 = 0 /\ year % 100 # 0) \/ year % 400 = 0

DaysInMonth(year, month) ==
    IF month = 2 THEN (IF IsLeapYear(year) THEN 29 ELSE 28)
    ELSE IF month \in {4, 6, 9, 11} THEN 30
    ELSE 31

try_from_components(year, month, day) ==
    /\ year >= MIN_YEAR
    /\ month >= 1
    /\ month <= 12
    /\ day >= 1
    /\ day <= DaysInMonth(year, month)

----------------------------------------------------------------------------
(* parse_yyyymmdd *)

DateOk(y, m, d) == [tag |-> "Ok", msg |-> "", year |-> y, month |-> m, day |-> d]

DateErr(msg) == [tag |-> "Err", msg |-> msg, year |-> 0, month |-> 0, day |-> 0]

\* A slice index that is not a char boundary: the call panics.
DatePanic == [tag |-> "Panic", msg |-> "", year |-> 0, month |-> 0, day |-> 0]

YearField(s) == Slice(s, 0, 4)

MonthField(s) == Slice(s, 4, 6)

\* A copy-and-paste slip: the day read from the month's bytes.
DayField_FromMonthBytes(s) == Slice(s, 4, 6)

DayField(s) == Slice(s, 6, 8)

parse_yyyymmdd(s) ==
    IF Len(s) # 8 THEN DateErr("Expected 8 characters (YYYYMMDD)")
    ELSE IF ~IsCharBoundary(s, 4) THEN DatePanic
    ELSE LET year == ParseU64(YearField(s)) IN
    IF ~year.ok THEN DateErr("Invalid year")
    ELSE IF ~IsCharBoundary(s, 6) THEN DatePanic
    ELSE LET month == ParseU8(MonthField(s)) IN
    IF ~month.ok THEN DateErr("Invalid month")
    ELSE LET day == ParseU8(DayField(s)) IN
    IF ~day.ok THEN DateErr("Invalid day")
    ELSE IF try_from_components(year.val, month.val, day.val)
         THEN DateOk(year.val, month.val, day.val)
         ELSE DateErr("Invalid date")

----------------------------------------------------------------------------
(* The date codec on bounded inputs *)

\* Candidate first four bytes.
YearInputs ==
    { <<"0","0","0","0">>, <<"0","0","0","1">>, <<"1","9","0","0">>,
      <<"1","9","6","9">>, <<"1","9","7","0">>, <<"2","0","0","0">>,
      <<"2","0","2","3">>, <<"2","0","2","4">>, <<"2","1","0","0">>,
      <<"9","9","9","9">>, <<"+","9","9","9">>, <<"-","2","0","2">>,
      <<"2","0","x","4">>, <<" ","2","0","2">>, <<"2","0","xC3","xBC">>,
      <<"2","0","2","xC3">> }

\* Candidate bytes five and six.
MonthInputs ==
    { <<"0","1">>, <<"0","2">>, <<"0","4">>, <<"1","2">>, <<"0","0">>,
      <<"1","3">>, <<"+","2">>, <<"1","x">>, <<"xBC","1">>, <<"1","xC3">> }

\* Candidate last two bytes.
DayInputs ==
    { <<"0","1">>, <<"2","8">>, <<"2","9">>, <<"3","0">>, <<"3","1">>,
      <<"0","0">>, <<"3","2">>, <<"+","5">>, <<"x","1">>, <<"xBC","1">> }

\* A Rust &str holds well-formed UTF-8: every lead byte xC3 is followed by
\* a continuation byte and every continuation byte follows a lead byte.
IsUtf8(str) ==
    \A i \in 1..Len(str) :
        /\ str[i] = "xC3" => (i < Len(str) /\ str[i + 1] \in ContinuationBytes)
        /\ str[i] \in ContinuationBytes => (i > 1 /\ str[i - 1] = "xC3")

\* How many bytes an input may be longer or shorter than eight.
MaxLenDelta == 1

DateInputs ==
    { s \in { y \o m \o d : y \in YearInputs, m \in MonthInputs, d \in DayInputs }
            \cup { SubSeq(y \o m \o d, 1, 8 - k) :
                     y \in YearInputs, m \in {<<"0","1">>}, d \in {<<"0","1">>},
                     k \in 1..MaxLenDelta }
            \cup { y \o m \o d \o SubSeq(<<"0","0","0","0">>, 1, k) :
                     y \in YearInputs, m \in {<<"0","1">>}, d \in {<<"0","1">>},
                     k \in 1..MaxLenDelta }
            \cup { <<>> } :
      IsUtf8(s) }

\* No call of parse_yyyymmdd has been made yet.
DateNotCalled == [tag |-> "NotCalled", msg |-> "", year |-> 0, month |-> 0, day |-> 0]

DateInit ==
    /\ date_s \in DateInputs
    /\ date_ret = DateNotCalled
    /\ blocks = <<>>
    /\ lines_read = 0
    /\ start_ts = <<>>
    /\ event_type = "None"
    /\ ics_events = <<>>
    /\ parse_pc = "returned"
    /\ panic_line = 0
    /\ TasksNotStarted

CallParseDate ==
    /\ date_ret = DateNotCalled
    /\ date_ret' = parse_yyyymmdd(date_s)
    /\ UNCHANGED date_s
    /\ UNCHANGED parseVars
    /\ UNCHANGED sysVars

DateNext == CallParseDate

SpecDate == DateInit /\ [][DateNext]_vars

----------------------------------------------------------------------------
(* What the specification calls a date string, a real date and an error kind *)

\* s is exactly eight ASCII digits.
IsEightDigits(s) == Len(s) = 8 /\ \A i \in 1..8 : IsDigit(s[i])

\* The decimal number written by bytes from..to of an all-digit string.
RECURSIVE Decimal(_, _, _)
Decimal(s, from, to) ==
    IF from > to THEN 0
    ELSE 10 * Decimal(s, from, to - 1) + DigitVal(s[to])

\* (y, m, d) is a date of the proleptic Gregorian calendar.
IsRealDate(y, m, d) ==
    /\ m \in 1..12
    /\ d >= 1
    /\ d <= (CASE m \in {1, 3, 5, 7, 8, 10, 12} -> 31
              [] m \in {4, 6, 9, 11} -> 30
              [] OTHER -> IF y % 400 = 0 \/ (y % 4 = 0 /\ y % 100 # 0) THEN 29 ELSE 28)

\* The error messages of parse_yyyymmdd that stand for FormatError.
FormatErrors ==
    { "Expected 8 characters (YYYYMMDD)", "Invalid year", "Invalid month", "Invalid day" }

\* The error message of parse_yyyymmdd that stands for RangeError.
RangeErrors == { "Invalid date" }

DateCalled == date_ret # DateNotCalled

\* C4, as claimed: every eight-digit string that writes a real date of any year
\* 0000-9999 parses to exactly that date.
C4_AnyYearParses ==
    (DateCalled /\ IsEightDigits(date_s)
       /\ IsRealDate(Decimal(date_s, 1, 4), Decimal(date_s, 5, 6), Decimal(date_s, 7, 8)))
    => date_ret = DateOk(Decimal(date_s, 1, 4), Decimal(date_s, 5, 6), Decimal(date_s, 7, 8))

\* C4, amended: every eight-digit string that writes a real date of a year
\* 1970-9999 parses to exactly that date (year, month, day).
C4_ValidDateParses ==
    (DateCalled /\ IsEightDigits(date_s)
       /\ Decimal(date_s, 1, 4) >= 1970
       /\ IsRealDate(Decimal(date_s, 1, 4), Decimal(date_s, 5, 6), Decimal(date_s, 7, 8)))
    => date_ret = DateOk(Decimal(date_s, 1, 4), Decimal(date_s, 5, 6), Decimal(date_s, 7, 8))

\* C4 witness: the leap day 2024-02-29 has been parsed to (2024, 2, 29).
C4_Witness ==
    /\ date_s = <<"2","0","2","4","0","2","2","9">>
    /\ date_ret = DateOk(2024, 2, 29)

\* C5, as claimed: an input that is not eight ASCII digits fails with
\* FormatError, eight digits that are no real date fail with RangeError, and
\* nothing outside the eight-digit format is accepted.
C5_RejectsMalformed ==
    DateCalled =>
        /\ ~IsEightDigits(date_s)
              => (date_ret.tag = "Err" /\ date_ret.msg \in FormatErrors)
        /\ (IsEightDigits(date_s)
               /\ ~IsRealDate(Decimal(date_s, 1, 4), Decimal(date_s, 5, 6),
                              Decimal(date_s, 7, 8)))
              => (date_ret.tag = "Err" /\ date_ret.msg \in RangeErrors)
        /\ date_ret.tag = "Ok" => IsEightDigits(date_s)

----------------------------------------------------------------------------
(* extract_ics_event *)

DTSTART_TAG == <<"D","T","S","T","A","R","T",";">>

DTSTART_PREFIX ==
    <<"D","T","S","T","A","R","T",";","T","Z","I","D","=","E","u","r","o","p","e","/",
      "B","e","r","l","i","n",";","V","A","L","U","E","=","D","A","T","E",":">>

SUMMARY_PREFIX == <<"S","U","M","M","A","R","Y",":">>

END_VEVENT == <<"E","N","D",":","V","E","V","E","N","T">>

\* The length asserted of a start-date line.
DTSTART_LINE_LEN == 46

\* Where the date string starts in a start-date line.
DATE_OFFSET == 38

TXT_Verpackungs ==
    <<"A","b","f","u","h","r"," ","g","e","l","b","e"," ","W","e","r","t","s","t","o",
      "f","f","t","o","n","n","e","/","-","s","a","c","k">>

TXT_Bio ==
    <<"A","b","f","u","h","r"," ","g","r","xC3","xBC","n","e"," ","B","i","o","t","o",
      "n","n","e">>

TXT_Papier ==
    <<"A","b","f","u","h","r"," ","b","l","a","u","e"," ","P","a","p","i","e","r","t",
      "o","n","n","e">>

TXT_Restmuell ==
    <<"A","b","f","u","h","r"," ","s","c","h","w","a","r","z","e"," ","R","e","s","t",
      "m","xC3","xBC","l","l","t","o","n","n","e">>

TXT_Laubsack ==
    <<"A","b","f","u","h","r"," ","L","a","u","b","s","xC3","xA4","c","k","e">>

TXT_Weihnachtsbaeume ==
    <<"A","b","f","u","h","r"," ","W","e","i","h","n","a","c","h","t","s","b","xC3","xA4",
      "u","m","e">>

\* enum Event
Event == {"Verpackungs", "Bio", "Papier", "Restmuell", "Laubsack", "Weihnachtsbaeume"}

\* The match on event_name: the Event of a summary text, "None" for the
\* catch-all arm.
MatchEvent(event_name) ==
    CASE event_name = TXT_Verpackungs -> "Verpackungs"
      [] event_name = TXT_Bio -> "Bio"
      [] event_name = TXT_Papier -> "Papier"
      [] event_name = TXT_Restmuell -> "Restmuell"
      [] event_name = TXT_Laubsack -> "Laubsack"
      [] event_name = TXT_Weihnachtsbaeume -> "Weihnachtsbaeume"
      [] OTHER -> "None"

IcsEvent(dtstart, ev) == [dtstart |-> dtstart, event_type |-> ev]

\* The position of the first line feed of str, 0 if it has none.
RECURSIVE FirstLF(_, _)
FirstLF(str, i) ==
    IF i > Len(str) THEN 0
    ELSE IF str[i] = "LF" THEN i
    ELSE FirstLF(str, i + 1)

\* str::lines(): the next line of what is left and what is left after it.  A
\* line ends at "\n"; the "\n" and a "\r" right before it are not part of it;
\* a last line without "\n" is yielded as it is.
NextLine(str) ==
    LET n == FirstLF(str, 1)
    IN  IF n = 0 THEN [line |-> str, rest |-> <<>>]
        ELSE [line |-> IF n > 1 /\ str[n - 1] = "CR"
                       THEN SubSeq(str, 1, n - 2)
                       ELSE SubSeq(str, 1, n - 1),
              rest |-> SubSeq(str, n + 1, Len(str))]

\* The three branches of the loop body, on a state
\* [start_ts, event_type, ics_events, panic_line] of the function; panic_line
\* # 0 says that the assert!/unwrap of that source line failed.

\* line.starts_with("DTSTART;")
OnDtstart(st, line) ==
    IF ~StartsWith(line, DTSTART_PREFIX) THEN [st EXCEPT !.panic_line = 90]
    ELSE IF Len(line) # DTSTART_LINE_LEN THEN [st EXCEPT !.panic_line = 91]
    ELSE LET r == parse_yyyymmdd(Slice(line, DATE_OFFSET, Len(line)))
         IN  IF r.tag = "Ok"
             THEN [st EXCEPT !.start_ts = <<r.year, r.month, r.day>>]
             ELSE [st EXCEPT !.panic_line = 92]

\* line.starts_with("SUMMARY:")
OnSummary(st, line) ==
    LET ev == MatchEvent(Trim(Slice(line, Len(SUMMARY_PREFIX), Len(line))))
    IN  IF ev # "None" THEN [st EXCEPT !.event_type = ev] ELSE st

\* A slip in the push: the new event is put in front of the earlier ones.
OnEndVevent_PushFront(st) ==
    IF st.start_ts = <<>> THEN [st EXCEPT !.panic_line = 119]
    ELSE IF st.event_type = "None" THEN [st EXCEPT !.panic_line = 120]
    ELSE [st EXCEPT !.ics_events = <<IcsEvent(st.start_ts, st.event_type)>> \o @]

\* line == "END:VEVENT"
OnEndVevent(st) ==
    IF st.start_ts = <<>> THEN [st EXCEPT !.panic_line = 119]
    ELSE IF st.event_type = "None" THEN [st EXCEPT !.panic_line = 120]
    ELSE [st EXCEPT !.ics_events = Append(@, IcsEvent(st.start_ts, st.event_type))]

\* Which branch a line takes.
LineKind(line) ==
    IF StartsWith(line, DTSTART_TAG) THEN "dtstart"
    ELSE IF StartsWith(line, SUMMARY_PREFIX) THEN "summary"
    ELSE IF line = END_VEVENT THEN "end"
    ELSE "other"

\* A slip in the loop body: a line of no kind clears the pending start date.
LineStep_OtherClears(st, line_str) ==
    LET line == TrimEnd(line_str)
    IN  CASE LineKind(line) = "dtstart" -> OnDtstart(st, line)
          [] LineKind(line) = "summary" -> OnSummary(st, line)
          [] LineKind(line) = "end" -> OnEndVevent(st)
          [] OTHER -> [st EXCEPT !.start_ts = <<>>]

\* One pass of the loop body over line_str.
LineStep(st, line_str) ==
    LET line == TrimEnd(line_str)
    IN  CASE LineKind(line) = "dtstart" -> OnDtstart(st, line)
          [] LineKind(line) = "summary" -> OnSummary(st, line)
          [] LineKind(line) = "end" -> OnEndVevent(st)
          [] OTHER -> st

ParserStart ==
    [start_ts |-> <<>>, event_type |-> "None", ics_events |-> <<>>, panic_line |-> 0]

\* The whole loop over what is left of the document: the state at the return,
\* or at the panic.
RECURSIVE RunLines(_, _)
RunLines(st, str) ==
    IF st.panic_line # 0 \/ str = <<>> THEN st
    ELSE RunLines(LineStep(st, NextLine(str).line), NextLine(str).rest)

extract_ics_event(document) == RunLines(ParserStart, document)

----------------------------------------------------------------------------
(* The calendar parser on bounded documents *)

\* How many blocks a document has at most.
MaxBlocks == 2

\* The text of a category in the fetched document format.
CategoryText(ev) ==
    CASE ev = "Verpackungs" -> TXT_Verpackungs
      [] ev = "Bio" -> TXT_Bio
      [] ev = "Papier" -> TXT_Papier
      [] ev = "Restmuell" -> TXT_Restmuell
      [] ev = "Laubsack" -> TXT_Laubsack
      [] ev = "Weihnachtsbaeume" -> TXT_Weihnachtsbaeume

\* The ASCII digit of the last decimal place of n.
DigitOf(n) == Digits[(n % 10) + 1]

\* A date written as YYYYMMDD.
FormatYYYYMMDD(ymd) ==
    <<DigitOf(ymd[1] \div 1000), DigitOf(ymd[1] \div 100), DigitOf(ymd[1] \div 10),
      DigitOf(ymd[1]),
      DigitOf(ymd[2] \div 10), DigitOf(ymd[2]),
      DigitOf(ymd[3] \div 10), DigitOf(ymd[3])>>

\* A block is written from a date part and a summary part.  The date part is a
\* date to format ("date"), a start-date line given byte by byte ("raw") or no
\* line ("absent"); the summary part is a category ("cat"), a line given byte by
\* byte ("raw") or no line ("absent").  `pre` are lines written before them and
\* `eol` is the line terminator.
DatePart(ymd) == [k |-> "date", ymd |-> ymd, line |-> <<>>]

RawDate(line) == [k |-> "raw", ymd |-> <<>>, line |-> line]

NoDate == [k |-> "absent", ymd |-> <<>>, line |-> <<>>]

CatPart(ev) == [k |-> "cat", cat |-> ev, line |-> <<>>]

RawSummary(line) == [k |-> "raw", cat |-> "None", line |-> line]

NoSummary == [k |-> "absent", cat |-> "None", line |-> <<>>]

Block(date, sum) == [pre |-> <<>>, date |-> date, sum |-> sum, eol |-> <<"LF">>]

DateLine(date) ==
    CASE date.k = "date" -> <<DTSTART_PREFIX \o FormatYYYYMMDD(date.ymd)>>
      [] date.k = "raw" -> <<date.line>>
      [] OTHER -> <<>>

SummaryLine(sum) ==
    CASE sum.k = "cat" -> <<SUMMARY_PREFIX \o CategoryText(sum.cat)>>
      [] sum.k = "raw" -> <<sum.line>>
      [] OTHER -> <<>>

\* The lines of a block: the start-date line, the summary line, END:VEVENT.
BlockLines(b) == b.pre \o DateLine(b.date) \o SummaryLine(b.sum) \o <<END_VEVENT>>

RECURSIVE JoinLines(_, _)
JoinLines(ls, eol) ==
    IF ls = <<>> THEN <<>> ELSE ls[1] \o eol \o JoinLines(Tail(ls), eol)

RECURSIVE Serialize(_)
\* The document of a sequence of blocks.
Serialize(bs) ==
    IF bs = <<>> THEN <<>>
    ELSE JoinLines(BlockLines(bs[1]), bs[1].eol) \o Serialize(Tail(bs))

\* SUMMARY:Abfuhr Sondermüll
SUMMARY_Unknown ==
    SUMMARY_PREFIX \o
    <<"A","b","f","u","h","r"," ","S","o","n","d","e","r","m","xC3","xBC","l","l">>

\* SUMMARY:abfuhr grüne biotonne
SUMMARY_LowerCase ==
    SUMMARY_PREFIX \o
    <<"a","b","f","u","h","r"," ","g","r","xC3","xBC","n","e"," ","b","i","o","t","o",
      "n","n","e">>

\* DTSTART;TZID=Europe/London;VALUE=DATE:20240115, 46 bytes
DTSTART_London ==
    <<"D","T","S","T","A","R","T",";","T","Z","I","D","=","E","u","r","o","p","e","/",
      "L","o","n","d","o","n",";","V","A","L","U","E","=","D","A","T","E",":",
      "2","0","2","4","0","1","1","5">>

BEGIN_VEVENT == <<"B","E","G","I","N",":","V","E","V","E","N","T">>

\* The names of the well-formed blocks of the model: a real date and one of
\* the six categories.
WellFormedBlocks ==
    { "20240115 Verpackungs", "20240229 Bio", "19700101 Papier", "19691231 Restmuell",
      "20251130 Laubsack", "99991231 Weihnachtsbaeume" }

\* The names of the other blocks of the model.
OtherBlocks ==
    { "unknown summary", "lower-case summary", "no summary", "no start date",
      "45-byte start date", "47-byte start date", "London start date",
      "20240230", "2024+1+5", "202u-umlaut-115", "white space and CR LF",
      "BEGIN:VEVENT and empty line" }

BlockSet == WellFormedBlocks \cup OtherBlocks

\* The block of a name.
BlockOf(name) ==
    CASE name = "20240115 Verpackungs" ->
           Block(DatePart(<<2024, 1, 15>>), CatPart("Verpackungs"))
      [] name = "20240229 Bio" ->
           Block(DatePart(<<2024, 2, 29>>), CatPart("Bio"))
      [] name = "19700101 Papier" ->
           Block(DatePart(<<1970, 1, 1>>), CatPart("Papier"))
      [] name = "19691231 Restmuell" ->
           Block(DatePart(<<1969, 12, 31>>), CatPart("Restmuell"))
      [] name = "20251130 Laubsack" ->
           Block(DatePart(<<2025, 11, 30>>), CatPart("Laubsack"))
      [] name = "99991231 Weihnachtsbaeume" ->
           Block(DatePart(<<9999, 12, 31>>), CatPart("Weihnachtsbaeume"))
      \* an unrecognized summary text, and one that differs in case only
      [] name = "unknown summary" ->
           Block(DatePart(<<2024, 3, 1>>), RawSummary(SUMMARY_Unknown))
      [] name = "lower-case summary" ->
           Block(DatePart(<<2024, 3, 2>>), RawSummary(SUMMARY_LowerCase))
      \* no summary line, no start-date line
      [] name = "no summary" ->
           Block(DatePart(<<2024, 3, 3>>), NoSummary)
      [] name = "no start date" ->
           Block(NoDate, CatPart("Bio"))
      \* start-date lines of 45 and of 47 bytes
      [] name = "45-byte start date" ->
           Block(RawDate(DTSTART_PREFIX \o <<"2","0","2","4","0","1","1">>),
                 CatPart("Papier"))
      [] name = "47-byte start date" ->
           Block(RawDate(DTSTART_PREFIX \o <<"2","0","2","4","0","1","1","5","0">>),
                 CatPart("Papier"))
      \* another prefix after DTSTART;
      [] name = "London start date" ->
           Block(RawDate(DTSTART_London), CatPart("Papier"))
      \* eight digits that are no date, and dates that are not eight digits
      [] name = "20240230" ->
           Block(RawDate(DTSTART_PREFIX \o <<"2","0","2","4","0","2","3","0">>),
                 CatPart("Bio"))
      [] name = "2024+1+5" ->
           Block(RawDate(DTSTART_PREFIX \o <<"2","0","2","4","+","1","+","5">>),
                 CatPart("Bio"))
      [] name = "202u-umlaut-115" ->
           Block(RawDate(DTSTART_PREFIX \o <<"2","0","2","xC3","xBC","1","1","5">>),
                 CatPart("Bio"))
      \* trailing white space, white space around the summary text, CR LF
      [] name = "white space and CR LF" ->
           [ pre |-> <<>>,
             date |-> RawDate(DTSTART_PREFIX \o <<"2","0","2","4","0","4","0","1"," ">>),
             sum |-> RawSummary(SUMMARY_PREFIX \o <<" ">> \o TXT_Laubsack \o <<"TAB">>),
             eol |-> <<"CR","LF">> ]
      \* lines of no kind before the fields
      [] name = "BEGIN:VEVENT and empty line" ->
           [ pre |-> <<BEGIN_VEVENT, <<>>>>,
             date |-> DatePart(<<2024, 5, 6>>),
             sum |-> CatPart("Verpackungs"),
             eol |-> <<"LF">> ]

\* DTSTART:20240115, without the semicolon
DTSTART_NoParams == <<"D","T","S","T","A","R","T",":","2","0","2","4","0","1","1","5">>

\* The names of the single lines of the model that take the DTSTART; branch,
\* the SUMMARY: branch or the END:VEVENT branch.
FieldLines ==
    { "line DTSTART 20240115", "line DTSTART 45 bytes", "line SUMMARY Bio",
      "line END:VEVENT" }

\* The names of the single lines of the model that take no branch.
OtherLines ==
    { "line BEGIN:VEVENT", "line empty", "line space END:VEVENT",
      "line DTSTART:20240115" }

LineSet == FieldLines \cup OtherLines

\* The line of a name, without its line terminator.
LineOf(name) ==
    CASE name = "line DTSTART 20240115" ->
           DTSTART_PREFIX \o FormatYYYYMMDD(<<2024, 1, 15>>)
      [] name = "line DTSTART 45 bytes" ->
           DTSTART_PREFIX \o <<"2","0","2","4","0","1","1">>
      [] name = "line SUMMARY Bio" -> SUMMARY_PREFIX \o TXT_Bio
      [] name = "line END:VEVENT" -> END_VEVENT
      [] name = "line BEGIN:VEVENT" -> BEGIN_VEVENT
      [] name = "line empty" -> <<>>
      [] name = "line space END:VEVENT" -> <<" ">> \o END_VEVENT
      [] name = "line DTSTART:20240115" -> DTSTART_NoParams

\* The text of a named piece of a document: a single line, or a block.
PieceText(name) ==
    IF name \in LineSet THEN LineOf(name) \o <<"LF">>
    ELSE Serialize(<<BlockOf(name)>>)

RECURSIVE Document(_)
\* The document of a sequence of names of blocks and of single lines.
Document(names) ==
    IF names = <<>> THEN <<>> ELSE PieceText(names[1]) \o Document(Tail(names))

RECURSIVE RestAfter(_, _)
\* What lines() has left of str after it has yielded n lines.
RestAfter(str, n) ==
    IF n = 0 THEN str ELSE RestAfter(NextLine(str).rest, n - 1)

RECURSIVE SeqsUpTo(_, _)
\* The sequences over S of length at most n.
SeqsUpTo(S, n) ==
    IF n = 0 THEN {<<>>}
    ELSE {<<>>} \cup { <<x>> \o t : x \in S, t \in SeqsUpTo(S, n - 1) }

\* The argument of the running call.
ics_document == Document(blocks)

\* What ics_document.lines() has not yet yielded.
rest == RestAfter(ics_document, lines_read)

ParseInit ==
    /\ blocks \in SeqsUpTo(BlockSet, MaxBlocks)
    /\ lines_read = 0
    /\ start_ts = <<>>
    /\ event_type = "None"
    /\ ics_events = <<>>
    /\ parse_pc = "lines"
    /\ panic_line = 0
    /\ date_s = <<>>
    /\ date_ret = DateNotCalled
    /\ TasksNotStarted

\* The local state of the running function, as LineStep takes it.
ParserState ==
    [start_ts |-> start_ts, event_type |-> event_type, ics_events |-> ics_events,
     panic_line |-> panic_line]

\* The branch that the next line of the document takes.
NextKind == LineKind(TrimEnd(NextLine(rest).line))

\* The loop body on the next line of the document.
ParseLine ==
    /\ parse_pc = "lines"
    /\ rest # <<>>
    /\ LET st == LineStep(ParserState, NextLine(rest).line)
       IN  /\ lines_read' = lines_read + 1
           /\ start_ts' = st.start_ts
           /\ event_type' = st.event_type
           /\ ics_events' = st.ics_events
           /\ panic_line' = st.panic_line
           /\ parse_pc' = IF st.panic_line # 0 THEN "panicked" ELSE "lines"
    /\ UNCHANGED blocks
    /\ UNCHANGED dateVars
    /\ UNCHANGED sysVars

ParseDtstartLine ==
    /\ rest # <<>>
    /\ NextKind = "dtstart"
    /\ ParseLine

ParseSummaryLine ==
    /\ rest # <<>>
    /\ NextKind = "summary"
    /\ ParseLine

ParseEndLine ==
    /\ rest # <<>>
    /\ NextKind = "end"
    /\ ParseLine

ParseOtherLine ==
    /\ rest # <<>>
    /\ NextKind = "other"
    /\ ParseLine

\* return ics_events
ParseReturn ==
    /\ parse_pc = "lines"
    /\ rest = <<>>
    /\ parse_pc' = "returned"
    /\ UNCHANGED <<blocks, lines_read, start_ts, event_type, ics_events, panic_line>>
    /\ UNCHANGED dateVars
    /\ UNCHANGED sysVars

ParseNext ==
    \/ ParseDtstartLine
    \/ ParseSummaryLine
    \/ ParseEndLine
    \/ ParseOtherLine
    \/ ParseReturn

SpecParse == ParseInit /\ [][ParseNext]_vars

\* How many lines a document given line by line has at most.
MaxLines == 4

\* The parser on the documents of at most MaxLines single lines.
LinesInit ==
    /\ blocks \in SeqsUpTo(LineSet, MaxLines)
    /\ lines_read = 0
    /\ start_ts = <<>>
    /\ event_type = "None"
    /\ ics_events = <<>>
    /\ parse_pc = "lines"
    /\ panic_line = 0
    /\ date_s = <<>>
    /\ date_ret = DateNotCalled
    /\ TasksNotStarted

SpecLines == LinesInit /\ [][ParseNext]_vars

----------------------------------------------------------------------------
(* What the specification says of blocks, and the parser's error kinds *)

\* The assert!/unwrap sites that stand for MalformedStartDate.
MalformedStartDate == {90, 91, 92}

\* The assert! sites that stand for IncompleteRecord.
IncompleteRecord == {119, 120}

ParseEnded == parse_pc \in {"returned", "panicked"}

\* A well-formed block: the 46-byte start-date line of a real date, the
\* summary line of one of the six category texts, then END:VEVENT.
IsWellFormed(b) ==
    /\ b.pre = <<>>
    /\ b.eol = <<"LF">>
    /\ b.date.k = "date"
    /\ b.date.ymd[1] \in 0..9999
    /\ IsRealDate(b.date.ymd[1], b.date.ymd[2], b.date.ymd[3])
    /\ b.sum.k = "cat"
    /\ b.sum.cat \in Event

\* The PickupEvent a well-formed block stands for.
EventOf(b) == IcsEvent(b.date.ymd, b.sum.cat)

\* One event per block, in document order.
EventsOfBlocks == [i \in 1..Len(blocks) |-> EventOf(BlockOf(blocks[i]))]

\* C1, as claimed: a document of N well-formed blocks, of any real dates,
\* parses without error to the N events of its blocks, in document order
\* (the empty sequence for N = 0).
C1_WellFormedAnyYear ==
    (ParseEnded /\ \A i \in 1..Len(blocks) : IsWellFormed(BlockOf(blocks[i])))
    => (parse_pc = "returned" /\ ics_events = EventsOfBlocks)

\* C1, amended: a document of N well-formed blocks whose dates are real dates
\* of the years 1970-9999 parses without error to exactly the N events of its
\* blocks, the i-th event with the date and the category of the i-th block
\* (the empty sequence for N = 0).
C1_WellFormedBlocksParse ==
    (ParseEnded
       /\ \A i \in 1..Len(blocks) :
             IsWellFormed(BlockOf(blocks[i])) /\ BlockOf(blocks[i]).date.ymd[1] >= 1970)
    => (parse_pc = "returned" /\ ics_events = EventsOfBlocks)

\* C1 witness: a document of two different well-formed blocks has been parsed
\* to its two events.
C1_Witness ==
    /\ parse_pc = "returned"
    /\ Len(blocks) = 2
    /\ \A i \in 1..2 : IsWellFormed(BlockOf(blocks[i])) /\ BlockOf(blocks[i]).date.ymd[1] >= 1970
    /\ blocks[1] # blocks[2]
    /\ Len(ics_events) = 2

\* The six recognized category texts.
RecognizedTexts == { CategoryText(ev) : ev \in Event }

\* The block has a summary line and its text is none of the six.
HasUnknownSummary(b) ==
    /\ b.sum.k = "raw"
    /\ StartsWith(b.sum.line, SUMMARY_PREFIX)
    /\ Trim(SubSeq(b.sum.line, Len(SUMMARY_PREFIX) + 1, Len(b.sum.line)))
          \notin RecognizedTexts

\* Every block ends with its one END:VEVENT line and a panic ends the parse,
\* so the i-th event of ics_events was pushed at the close of the i-th block.

\* C2, as claimed: no event is emitted for a block whose summary text is
\* unrecognized, at any position in the document, and the parse that has
\* closed the blocks before it ends at it with IncompleteRecord.
C2_UnknownSummaryNeverEmitted ==
    \A i \in 1..Len(blocks) :
        HasUnknownSummary(BlockOf(blocks[i])) =>
            /\ Len(ics_events) < i
            /\ (ParseEnded /\ Len(ics_events) = i - 1)
                  => (parse_pc = "panicked" /\ panic_line \in IncompleteRecord)

\* The last eight bytes of a line.
LastEight(line) == SubSeq(line, Len(line) - 7, Len(line))

\* A start-date line that the specification calls malformed: it starts with
\* DTSTART; and is not 46 bytes long, or has another prefix, or does not end in
\* eight digits that write a real date.
IsMalformedStartLine(line) ==
    /\ StartsWith(line, DTSTART_TAG)
    /\ \/ Len(line) # 46
       \/ ~StartsWith(line, DTSTART_PREFIX)
       \/ ~IsEightDigits(LastEight(line))
       \/ ~IsRealDate(Decimal(LastEight(line), 1, 4), Decimal(LastEight(line), 5, 6),
                      Decimal(LastEight(line), 7, 8))

\* C3, as claimed: a block with a malformed start-date line yields no event,
\* and the parse that has closed the blocks before it ends at it with
\* MalformedStartDate.
C3_MalformedStartDateRaised ==
    \A i \in 1..Len(blocks) :
        (BlockOf(blocks[i]).date.k = "raw"
           /\ IsMalformedStartLine(TrimEnd(BlockOf(blocks[i]).date.line)))
        =>  /\ Len(ics_events) < i
            /\ (ParseEnded /\ Len(ics_events) = i - 1)
                  => (parse_pc = "panicked" /\ panic_line \in MalformedStartDate)

\* A line that matches none of the three patterns, the trailing white space
\* that line handling tolerates apart.
IsIgnoredLine(line) ==
    /\ ~StartsWith(TrimEnd(line), DTSTART_TAG)
    /\ ~StartsWith(TrimEnd(line), SUMMARY_PREFIX)
    /\ TrimEnd(line) # END_VEVENT

\* The named lines of a document that match one of the three patterns.
WithoutIgnored(names) == SelectSeq(names, LAMBDA n : ~IsIgnoredLine(LineOf(n)))

\* C14: a document and the document without its lines of no kind have the
\* same result, the same events or the same error: the lines that match none
\* of the three patterns, in any number and at any position, change nothing.
C14_OtherLinesIgnored ==
    (ParseEnded /\ \A i \in 1..Len(blocks) : blocks[i] \in LineSet)
    => LET st == extract_ics_event(Document(WithoutIgnored(blocks)))
       IN  /\ ics_events = st.ics_events
           /\ panic_line = st.panic_line

\* C14 witness: a document with a line of no kind between the start-date line
\* and the summary line, and another before END:VEVENT, was parsed to its one
\* event.
C14_Witness ==
    /\ parse_pc = "returned"
    /\ Len(ics_events) = 1
    /\ Len(blocks) >= 4
    /\ blocks[1] = "line DTSTART 20240115"
    /\ blocks[2] \in OtherLines

\* END:VEVENT has closed a record in this step: one event was pushed.
RecordClosed == Len(ics_events') = Len(ics_events) + 1

\* C13, as claimed: after every closed record both scratch fields are None,
\* and a block without a start-date line of its own yields no event: the
\* parse that has closed the blocks before it ends at its END:VEVENT with
\* IncompleteRecord.
C13_ScratchResetAtClose ==
    [][ /\ RecordClosed => (start_ts' = <<>> /\ event_type' = "None")
        /\ \A i \in 1..Len(blocks) :
              BlockOf(blocks[i]).date.k = "absent" =>
                  /\ Len(ics_events') < i
                  /\ (parse_pc' \in {"returned", "panicked"} /\ Len(ics_events') = i - 1)
                        => (parse_pc' = "panicked" /\ panic_line' \in IncompleteRecord)
      ]_vars

----------------------------------------------------------------------------
(* The tasks: main, connection and net_task on one cooperative executor *)

(***************************************************************************)
(* The three tasks run on one executor, which polls a task from one await  *)
(* to the next: a step of a task is atomic with respect to the other       *)
(* tasks.  The radio driver runs beside the executor and changes           *)
(* sta_state and the pending events at any moment.  loop {} (main.rs:180,  *)
(* and the panic handler, main.rs:30) never awaits, so the task that       *)
(* reaches it keeps the executor and no task is polled again.              *)
(***************************************************************************)

\* The executor can poll a task.
ExecutorFree == main_pc \notin {"idle", "panicked"} /\ conn_pc # "panicked"

\* The documents the server may answer with.
FetchDocs ==
    { <<>>,
      <<"20240115 Verpackungs", "20240229 Bio">>,
      <<"20240115 Verpackungs", "unknown summary">>,
      <<"unknown summary">>,
      <<"45-byte start date">> }

Init ==
    /\ main_pc = "wait_link"
    /\ conn_pc = "loop"
    /\ sta_state = "Invalid"
    /\ ev_connected = FALSE
    /\ ev_disconnected = FALSE
    /\ confirm_pending = FALSE
    /\ link_up = FALSE
    /\ config_v4 = FALSE
    /\ blocks = <<>>
    /\ lines_read = 0
    /\ start_ts = <<>>
    /\ event_type = "None"
    /\ ics_events = <<>>
    /\ parse_pc = "not called"
    /\ panic_line = 0
    /\ date_s = <<>>
    /\ date_ret = DateNotCalled

--------------------------------------------------------------------------
(* wait_for_connection and main *)

\* A slip in the second loop: it breaks without looking at config_v4().
WaitPoll_NoAddressCheck ==
    IF main_pc = "wait_link"
    THEN (IF link_up THEN "return" ELSE "wait_link")
    ELSE "return"

\* A slip in the second loop: it polls is_link_up() again.
WaitPoll_LinkTwice ==
    IF main_pc = "wait_link"
    THEN (IF link_up THEN "return" ELSE "wait_link")
    ELSE (IF link_up THEN "return" ELSE "wait_ip")

\* One poll of wait_for_connection from the timer it is suspended at: the
\* timer it suspends at next, or "return".  The first loop falls into the
\* second without an await.
WaitPoll ==
    IF main_pc = "wait_link"
    THEN (IF link_up
          THEN (IF config_v4 THEN "return" ELSE "wait_ip")
          ELSE "wait_link")
    ELSE (IF config_v4 THEN "return" ELSE "wait_ip")

\* main is polled inside wait_for_connection; when that returns, main calls
\* access_website, which runs up to the await of client.request().
MainWait ==
    /\ ExecutorFree
    /\ main_pc \in {"wait_link", "wait_ip"}
    /\ main_pc' = IF WaitPoll = "return" THEN "fetch_request" ELSE WaitPoll
    /\ UNCHANGED <<conn_pc, sta_state, ev_connected, ev_disconnected, link_up, config_v4,
                 confirm_pending>>
    /\ UNCHANGED <<parseVars, dateVars>>

\* A slip in access_website: a failed step starts the request again instead of
\* unwrapping the Err.
MainPanic_Retry(n) ==
    /\ main_pc' = "fetch_request"
    /\ panic_line' = n

\* main panics at source line n: the panic handler loops for ever.
MainPanic(n) ==
    /\ main_pc' = "panicked"
    /\ panic_line' = n

\* client.request(..).await: the name is resolved, the connection made and the
\* TLS session set up, which takes a link that is up.
MainRequestOk ==
    /\ ExecutorFree
    /\ main_pc = "fetch_request"
    /\ link_up /\ config_v4
    /\ main_pc' = "fetch_send"
    /\ UNCHANGED <<conn_pc, sta_state, ev_connected, ev_disconnected, link_up, config_v4,
                 confirm_pending>>
    /\ UNCHANGED <<parseVars, dateVars>>

\* client.request(..).await.unwrap() on Err
MainRequestErr ==
    /\ ExecutorFree
    /\ main_pc = "fetch_request"
    /\ MainPanic(275)
    /\ UNCHANGED <<conn_pc, sta_state, ev_connected, ev_disconnected, link_up, config_v4,
                 confirm_pending>>
    /\ UNCHANGED <<blocks, lines_read, start_ts, event_type, ics_events, parse_pc>>
    /\ UNCHANGED dateVars

\* http_req.send(&mut buffer).await
MainSendOk ==
    /\ ExecutorFree
    /\ main_pc = "fetch_send"
    /\ link_up /\ config_v4
    /\ main_pc' = "fetch_read"
    /\ UNCHANGED <<conn_pc, sta_state, ev_connected, ev_disconnected, link_up, config_v4,
                 confirm_pending>>
    /\ UNCHANGED <<parseVars, dateVars>>

\* http_req.send(&mut buffer).await.unwrap() on Err
MainSendErr ==
    /\ ExecutorFree
    /\ main_pc = "fetch_send"
    /\ MainPanic(276)
    /\ UNCHANGED <<conn_pc, sta_state, ev_connected, ev_disconnected, link_up, config_v4,
                 confirm_pending>>
    /\ UNCHANGED <<blocks, lines_read, start_ts, event_type, ics_events, parse_pc>>
    /\ UNCHANGED dateVars

\* response.body().read_to_end().await.unwrap() on Err
MainReadErr ==
    /\ ExecutorFree
    /\ main_pc = "fetch_read"
    /\ MainPanic(279)
    /\ UNCHANGED <<conn_pc, sta_state, ev_connected, ev_disconnected, link_up, config_v4,
                 confirm_pending>>
    /\ UNCHANGED <<blocks, lines_read, start_ts, event_type, ics_events, parse_pc>>
    /\ UNCHANGED dateVars

\* read_to_end() returns a body that is not UTF-8: from_utf8(res).unwrap()
MainReadNotUtf8 ==
    /\ ExecutorFree
    /\ main_pc = "fetch_read"
    /\ MainPanic(281)
    /\ UNCHANGED <<conn_pc, sta_state, ev_connected, ev_disconnected, link_up, config_v4,
                 confirm_pending>>
    /\ UNCHANGED <<blocks, lines_read, start_ts, event_type, ics_events, parse_pc>>
    /\ UNCHANGED dateVars

\* read_to_end() returns the document: access_website returns it and main
\* calls extract_ics_event, logs the count and enters loop {}, all without an
\* await; a panic of the parser ends in the panic handler's loop {}.
MainReadOkAndParse ==
    /\ ExecutorFree
    /\ main_pc = "fetch_read"
    /\ \E doc \in FetchDocs :
          LET st == extract_ics_event(Document(doc))
          IN  /\ blocks' = doc
              /\ start_ts' = st.start_ts
              /\ event_type' = st.event_type
              /\ ics_events' = st.ics_events
              /\ panic_line' = st.panic_line
              /\ parse_pc' = IF st.panic_line # 0 THEN "panicked" ELSE "returned"
              /\ main_pc' = IF st.panic_line # 0 THEN "panicked" ELSE "idle"
    /\ UNCHANGED lines_read
    /\ UNCHANGED <<conn_pc, sta_state, ev_connected, ev_disconnected, link_up, config_v4,
                 confirm_pending>>
    /\ UNCHANGED dateVars

MainNext ==
    \/ MainWait
    \/ MainRequestOk
    \/ MainRequestErr
    \/ MainSendOk
    \/ MainSendErr
    \/ MainReadErr
    \/ MainReadNotUtf8
    \/ MainReadOkAndParse

--------------------------------------------------------------------------
(* connection *)

\* controller.is_started(): the station has been started.
IsStarted == sta_state \in {"Started", "Connected", "Disconnected"}

\* The top of the loop: sta_state() is read.
ConnLoopTop ==
    /\ ExecutorFree
    /\ conn_pc = "loop"
    /\ conn_pc' = IF sta_state = "Connected" THEN "enter_wait" ELSE "check_started"
    /\ UNCHANGED <<main_pc, sta_state, ev_connected, ev_disconnected, link_up, config_v4,
                 confirm_pending>>
    /\ UNCHANGED <<parseVars, dateVars>>

\* controller.wait_for_event(StaDisconnected): a pending event is cleared and
\* the task suspends.
ConnEnterWait ==
    /\ ExecutorFree
    /\ conn_pc = "enter_wait"
    /\ ev_disconnected' = FALSE
    /\ conn_pc' = "wait_disconnected"
    /\ UNCHANGED <<main_pc, sta_state, ev_connected, link_up, config_v4,
                 confirm_pending>>
    /\ UNCHANGED <<parseVars, dateVars>>

\* The disconnect notification arrives: the task suspends at the 5 s timer.
ConnDisconnectSeen ==
    /\ ExecutorFree
    /\ conn_pc = "wait_disconnected"
    /\ ev_disconnected
    /\ ev_disconnected' = FALSE
    /\ conn_pc' = "cooldown"
    /\ UNCHANGED <<main_pc, sta_state, ev_connected, link_up, config_v4,
                 confirm_pending>>
    /\ UNCHANGED <<parseVars, dateVars>>

\* Timer::after(5000 ms) of the Connected arm elapses.
ConnCooldownDone ==
    /\ ExecutorFree
    /\ conn_pc = "cooldown"
    /\ conn_pc' = "check_started"
    /\ UNCHANGED <<main_pc, sta_state, ev_connected, ev_disconnected, link_up, config_v4,
                 confirm_pending>>
    /\ UNCHANGED <<parseVars, dateVars>>

\* connection panics at source line n: the panic handler loops for ever.
ConnPanic(n) ==
    /\ conn_pc' = "panicked"
    /\ panic_line' = n

\* connect_async() up to its await: the pending events are cleared and the
\* radio is asked to associate.
ConnectCall ==
    /\ ev_connected' = FALSE
    /\ ev_disconnected' = FALSE
    /\ conn_pc' = "connecting"

\* is_started() is true: the task goes on to connect_async().
ConnStartedConnect ==
    /\ ExecutorFree
    /\ conn_pc = "check_started"
    /\ IsStarted
    /\ ConnectCall
    /\ UNCHANGED <<main_pc, sta_state, link_up, config_v4,
                 confirm_pending>>
    /\ UNCHANGED <<parseVars, dateVars>>

\* is_started() is false: set_config() succeeds and start_async() suspends.
ConnConfigureStart ==
    /\ ExecutorFree
    /\ conn_pc = "check_started"
    /\ ~IsStarted
    /\ conn_pc' = "starting"
    /\ UNCHANGED <<main_pc, sta_state, ev_connected, ev_disconnected, link_up, config_v4,
                 confirm_pending>>
    /\ UNCHANGED <<parseVars, dateVars>>

\* is_started() is false: set_config(..).unwrap() on Err
ConnConfigureErr ==
    /\ ExecutorFree
    /\ conn_pc = "check_started"
    /\ ~IsStarted
    /\ ConnPanic(221)
    /\ UNCHANGED <<main_pc, sta_state, ev_connected, ev_disconnected, link_up, config_v4,
                 confirm_pending>>
    /\ UNCHANGED <<blocks, lines_read, start_ts, event_type, ics_events, parse_pc>>
    /\ UNCHANGED dateVars

\* start_async() returns Ok: the station is started and the scan suspends.
ConnStartOk ==
    /\ ExecutorFree
    /\ conn_pc = "starting"
    /\ sta_state' = "Started"
    /\ conn_pc' = "scanning"
    /\ UNCHANGED <<main_pc, ev_connected, ev_disconnected, link_up, config_v4,
                 confirm_pending>>
    /\ UNCHANGED <<parseVars, dateVars>>

\* start_async().await.unwrap() on Err
ConnStartErr ==
    /\ ExecutorFree
    /\ conn_pc = "starting"
    /\ ConnPanic(223)
    /\ UNCHANGED <<main_pc, sta_state, ev_connected, ev_disconnected, link_up, config_v4,
                 confirm_pending>>
    /\ UNCHANGED <<blocks, lines_read, start_ts, event_type, ics_events, parse_pc>>
    /\ UNCHANGED dateVars

\* scan_with_config_async() returns Ok: the access points are printed and the
\* task goes on to connect_async().
ConnScanOk ==
    /\ ExecutorFree
    /\ conn_pc = "scanning"
    /\ ConnectCall
    /\ UNCHANGED <<main_pc, sta_state, link_up, config_v4,
                 confirm_pending>>
    /\ UNCHANGED <<parseVars, dateVars>>

\* scan_with_config_async(..).await.unwrap() on Err
ConnScanErr ==
    /\ ExecutorFree
    /\ conn_pc = "scanning"
    /\ ConnPanic(231)
    /\ UNCHANGED <<main_pc, sta_state, ev_connected, ev_disconnected, link_up, config_v4,
                 confirm_pending>>
    /\ UNCHANGED <<blocks, lines_read, start_ts, event_type, ics_events, parse_pc>>
    /\ UNCHANGED dateVars

\* A slip in the Err arm: no Timer::after, the task is back at the top of the
\* loop at once.
ConnConnectReturn_NoBackoff ==
    /\ ExecutorFree
    /\ conn_pc = "connecting"
    /\ ev_connected \/ ev_disconnected
    /\ conn_pc' = "loop"
    /\ ev_connected' = FALSE
    /\ ev_disconnected' = FALSE
    /\ UNCHANGED <<main_pc, sta_state, link_up, config_v4,
                 confirm_pending>>
    /\ UNCHANGED <<parseVars, dateVars>>

\* connect_async() returns: Err when StaDisconnected is among the events that
\* arrived (the task suspends at the 5 s backoff timer), Ok otherwise (the
\* task is back at the top of the loop).
ConnConnectReturn ==
    /\ ExecutorFree
    /\ conn_pc = "connecting"
    /\ ev_connected \/ ev_disconnected
    /\ conn_pc' = IF ev_disconnected THEN "backoff" ELSE "loop"
    /\ ev_connected' = FALSE
    /\ ev_disconnected' = FALSE
    /\ UNCHANGED <<main_pc, sta_state, link_up, config_v4,
                 confirm_pending>>
    /\ UNCHANGED <<parseVars, dateVars>>

\* Timer::after(5000 ms) of the Err arm elapses.
ConnBackoffDone ==
    /\ ExecutorFree
    /\ conn_pc = "backoff"
    /\ conn_pc' = "loop"
    /\ UNCHANGED <<main_pc, sta_state, ev_connected, ev_disconnected, link_up, config_v4,
                 confirm_pending>>
    /\ UNCHANGED <<parseVars, dateVars>>

ConnNext ==
    \/ ConnLoopTop
    \/ ConnEnterWait
    \/ ConnDisconnectSeen
    \/ ConnCooldownDone
    \/ ConnStartedConnect
    \/ ConnConfigureStart
    \/ ConnConfigureErr
    \/ ConnStartOk
    \/ ConnStartErr
    \/ ConnScanOk
    \/ ConnScanErr
    \/ ConnConnectReturn
    \/ ConnBackoffDone

--------------------------------------------------------------------------
(* The radio driver *)

\* The association asked for by connect_async() is made.
RadioConnected ==
    /\ conn_pc = "connecting"
    /\ sta_state # "Connected"
    /\ ~confirm_pending
    /\ ~ev_connected /\ ~ev_disconnected
    /\ sta_state' = "Connected"
    /\ ev_connected' = TRUE
    /\ UNCHANGED <<main_pc, conn_pc, ev_disconnected, link_up, config_v4,
                 confirm_pending>>
    /\ UNCHANGED <<parseVars, dateVars>>

\* The association asked for by connect_async() is made and StaConnected is
\* posted, and the supervisor is polled before the driver has stored
\* Connected in the state that sta_state() reads.
RadioConnectedUnconfirmed ==
    /\ conn_pc = "connecting"
    /\ sta_state # "Connected"
    /\ ~confirm_pending
    /\ ~ev_connected /\ ~ev_disconnected
    /\ ev_connected' = TRUE
    /\ confirm_pending' = TRUE
    /\ UNCHANGED <<main_pc, conn_pc, sta_state, ev_disconnected, link_up, config_v4>>
    /\ UNCHANGED <<parseVars, dateVars>>

\* The driver stores Connected in the state that sta_state() reads.
RadioConfirm ==
    /\ confirm_pending
    /\ sta_state' = "Connected"
    /\ confirm_pending' = FALSE
    /\ UNCHANGED <<main_pc, conn_pc, ev_connected, ev_disconnected, link_up, config_v4>>
    /\ UNCHANGED <<parseVars, dateVars>>

\* The association asked for by connect_async() fails.
RadioConnectFailed ==
    /\ conn_pc = "connecting"
    /\ sta_state # "Connected"
    /\ ~confirm_pending
    /\ ~ev_connected /\ ~ev_disconnected
    /\ sta_state' = "Disconnected"
    /\ ev_disconnected' = TRUE
    /\ UNCHANGED <<main_pc, conn_pc, ev_connected, link_up, config_v4,
                 confirm_pending>>
    /\ UNCHANGED <<parseVars, dateVars>>

\* The association is lost.
RadioDisconnected ==
    /\ sta_state = "Connected"
    /\ sta_state' = "Disconnected"
    /\ ev_disconnected' = TRUE
    /\ UNCHANGED <<main_pc, conn_pc, ev_connected, link_up, config_v4,
                 confirm_pending>>
    /\ UNCHANGED <<parseVars, dateVars>>

RadioNext ==
    \/ RadioConnected
    \/ RadioConnectedUnconfirmed
    \/ RadioConfirm
    \/ RadioConnectFailed
    \/ RadioDisconnected

--------------------------------------------------------------------------
(* net_task: runner.run() of embassy_net *)

\* The device's link state, which the stack reads in its poll.
DriverLinkUp == sta_state = "Connected"

\* One poll of the stack.  link_up follows the device.  When the link has come
\* up the DHCP socket is reset; while it stays up the socket may configure an
\* address or lose it; when the link has gone down the address is dropped in
\* the same poll.
NetPoll ==
    /\ ExecutorFree
    /\ link_up' = DriverLinkUp
    /\ \E dhcp \in {"none", "configured", "deconfigured"} :
          config_v4' = IF DriverLinkUp /\ link_up
                       THEN (CASE dhcp = "configured" -> TRUE
                               [] dhcp = "deconfigured" -> FALSE
                               [] OTHER -> config_v4)
                       ELSE FALSE
    /\ <<link_up', config_v4'>> # <<link_up, config_v4>>
    /\ UNCHANGED <<main_pc, conn_pc, sta_state, ev_connected, ev_disconnected,
                 confirm_pending>>
    /\ UNCHANGED <<parseVars, dateVars>>

--------------------------------------------------------------------------

Next ==
    \/ MainNext
    \/ ConnNext
    \/ RadioNext
    \/ NetPoll

Spec == Init /\ [][Next]_vars

\* The executor polls every task that is ready, timers elapse, and the radio
\* answers a request to associate.
FairSpec ==
    /\ Init
    /\ [][Next]_vars
    /\ WF_vars(MainNext)
    /\ WF_vars(ConnNext)
    /\ WF_vars(NetPoll)
    /\ WF_vars(RadioConnected \/ RadioConnectFailed)
    /\ WF_vars(RadioConfirm)

----------------------------------------------------------------------------
(* The Link Supervisor and the Address Acquisition Wait *)

\* main has ended its one fetch-and-parse cycle, by reaching loop {} or by a
\* panic.
CycleEnded == main_pc \in {"idle", "panicked"}

\* C6, as claimed: every failed association attempt (the supervisor is in its
\* backoff) is eventually followed by another attempt, so after N failures
\* there is an (N+1)-th attempt, for every N.
C6_RetryAfterEveryFailure == [](conn_pc = "backoff" => <>(conn_pc = "connecting"))

\* C7, as claimed: a scan failure is absorbed by the supervisor; it never ends
\* the task in the panic handler.
C7_ScanFailureAbsorbed == ~(conn_pc = "panicked" /\ panic_line = 231)

\* C8, as claimed: once the cycle has ended with the station associated, every
\* later disconnect is eventually followed by a new association attempt.
C8_SupervisorOutlivesCycle ==
    []((CycleEnded /\ sta_state = "Connected")
          => [](sta_state = "Disconnected" => <>(conn_pc = "connecting")))

\* access_website is called in this step.
FetchInvoked == main_pc # "fetch_request" /\ main_pc' = "fetch_request"

\* C9: the fetch is invoked only by the return of wait_for_connection, and at
\* the moment it is invoked the stack has an IPv4 configuration.
C9_FetchAfterAddress ==
    [][FetchInvoked => (main_pc \in {"wait_link", "wait_ip"} /\ config_v4')]_vars

\* C9 witness: the fetch has been invoked and awaits its request, with the
\* address configured.
C9_Witness == main_pc = "fetch_request" /\ config_v4 /\ sta_state = "Connected"

\* wait_for_connection returns in this step.
WaitReturns == main_pc \in {"wait_link", "wait_ip"} /\ main_pc' \notin {"wait_link", "wait_ip"}

\* C10: wait_for_connection returns only from a poll, never by a timeout, and at
\* the moment it returns the stack reports both link-up and an IPv4
\* configuration, whatever the link did while the wait was polling.
C10_WaitReturnsConnected == [][WaitReturns => (link_up' /\ config_v4')]_vars

\* C10 witness: the wait has returned with the stack reporting link-up and an
\* address, while the radio has lost the association the stack has not yet
\* polled.
C10_Witness ==
    /\ main_pc = "fetch_request"
    /\ link_up
    /\ config_v4
    /\ sta_state = "Disconnected"

----------------------------------------------------------------------------
(* The Fetch Client *)

\* The unwraps of access_website: a failure of the fetch ends at one of them.
FetchError == {275, 276, 279, 281}

\* main is inside wait_for_connection.
Waiting == main_pc \in {"wait_link", "wait_ip"}

\* main is inside access_website.
Fetching == main_pc \in {"fetch_request", "fetch_send", "fetch_read"}

\* The fetch has failed: main is in the panic handler, from an unwrap of
\* access_website.
FetchFailed == main_pc = "panicked" /\ panic_line \in FetchError

----------------------------------------------------------------------------
(* The Link Supervisor, step by step *)

\* connect_async() is called in this step: an association attempt begins.
AttemptBegins == conn_pc # "connecting" /\ conn_pc' = "connecting"

\* connect_async() returns Err in this step: the attempt has failed.
AttemptFails == conn_pc = "connecting" /\ conn_pc' # "connecting" /\ ev_disconnected

\* C15: a failed attempt leaves the supervisor suspended at the 5 s backoff
\* timer; the only way out of that wait is the timer elapsing, which puts the
\* supervisor at the top of its loop; and no attempt begins from the wait
\* itself.  So the backoff has elapsed between a failed attempt and the next.
C15_BackoffBetweenAttempts ==
    [][ /\ AttemptFails => conn_pc' = "backoff"
        /\ (conn_pc = "backoff" /\ conn_pc' # "backoff")
              => (ConnBackoffDone /\ conn_pc' = "loop")
        /\ AttemptBegins => conn_pc \in {"check_started", "scanning"}
      ]_vars

\* C15 witness: an attempt has failed and the supervisor is in its backoff,
\* with main still waiting for the link.
C15_Witness ==
    /\ conn_pc = "backoff"
    /\ sta_state = "Disconnected"
    /\ main_pc = "wait_link"

\* The supervisor has read Connected at the top of its loop and has not yet
\* come out of the cooldown.
InConnectedArm == conn_pc \in {"enter_wait", "wait_disconnected", "cooldown"}

\* C16, as claimed: from the read of Connected on, the supervisor begins no
\* attempt and does not configure, start or scan the radio; it leaves the
\* wait for the notification only when the notification has arrived, and
\* then suspends at the cooldown; and when the cooldown has elapsed it is
\* back at the top of its loop, where the association state is read again
\* before any attempt.
C16_ReevaluateAfterCooldown ==
    [][ /\ InConnectedArm =>
              /\ ~AttemptBegins
              /\ conn_pc' \notin {"starting", "scanning", "connecting"}
        /\ (conn_pc = "wait_disconnected" /\ conn_pc' # "wait_disconnected")
              => (ev_disconnected /\ conn_pc' = "cooldown")
        /\ (conn_pc = "cooldown" /\ conn_pc' # "cooldown") => conn_pc' = "loop"
      ]_vars

\* The station is associated: StaConnected was posted and no disconnect has
\* been notified since.
Associated == sta_state = "Connected" \/ confirm_pending

\* C17, as claimed: while the association made by a successful attempt
\* stands, that is until a disconnect is notified, the supervisor begins no
\* attempt, also when sta_state() shows Connected only some time after
\* connect_async() has returned Ok.
C17_NoAttemptWhileAssociated == [][AttemptBegins => ~Associated]_vars

\* The steps before an attempt, in their order: is_started() is false, then
\* set_config() (the task suspends in start_async()), then start_async()
\* returns (the task suspends in the scan); is_started() is true, then
\* connect_async() at once.  An unwrap of set_config() or of start_async()
\* ends the task before any attempt.
StartStepsInOrder ==
    /\ (conn_pc = "check_started" /\ ~IsStarted)
          => conn_pc' \in {"check_started", "starting", "panicked"}
    /\ (conn_pc = "check_started" /\ IsStarted)
          => conn_pc' \in {"check_started", "connecting"}
    /\ conn_pc = "starting" => conn_pc' \in {"starting", "scanning", "panicked"}
    /\ (conn_pc = "starting" /\ conn_pc' = "scanning") => IsStarted'
    /\ conn_pc' = "starting" => conn_pc \in {"starting", "check_started"}
    /\ conn_pc' = "scanning" => conn_pc \in {"scanning", "starting"}

\* C18, as claimed: every attempt begins with the radio started; a radio
\* found not started is configured, started and scanned, in that order,
\* before the attempt, and a radio found started is not; and whatever the
\* scan returns, the attempt follows it.
C18_StartedBeforeAttempt ==
    [][ /\ AttemptBegins => IsStarted
        /\ StartStepsInOrder
        /\ conn_pc = "scanning" => conn_pc' \in {"scanning", "connecting"}
      ]_vars

\* C19, as claimed: a disconnect that happens after the supervisor has read
\* Connected, whether before or after wait_for_event() has registered its
\* wait, is eventually followed by a new attempt, as long as the executor
\* goes on polling the tasks.
C19_NoLostWakeup ==
    []((InConnectedArm /\ sta_state = "Disconnected")
          => <>(conn_pc = "connecting" \/ ~ExecutorFree))

====
